---- MODULE Spec2Model ----
(***************************************************************************)
(* The chat endpoint of AMA Northstowe (src/pages/api/chat.ts): the        *)
(* process-wide rate-limit map, the fixed-window gate, the relevance       *)
(* filter, the query enhancer and the request handler with its single      *)
(* await on the upstream API.  JavaScript strings are sequences of         *)
(* one-character strings, so that toLowerCase and includes are computed.   *)
(***************************************************************************)
EXTENDS Integers, Sequences, FiniteSets, TLC

VARIABLES now, rateLimitMap, apiKey, inflight, last, allowedLog,
          earlier, draft, verdict, page, started, probe

\* The chat endpoint's process, and what is observed of it.
serverVars == <<now, rateLimitMap, apiKey, inflight, last, allowedLog>>

\* The reply before the last one; the relevance filter and the enhancer
\* applied to a query on their own; the page in the browser.
otherVars == <<earlier, draft, verdict, page>>

\* The invocations of the chat handler taken statement by statement; the
\* invocation of the test endpoint.
stepVars == <<started, probe>>

vars == <<serverVars, otherVars, stepVars>>

(* ------------------------------ bounds --------------------------------- *)

\* Date.now() takes the values Instant(0), ..., Instant(MaxInstant).
MaxInstant == 2

\* Handler invocations suspended on the upstream call at the same time.
MaxInflight == 1

(* --------------------------- program constants ------------------------- *)

RATE_LIMIT == 5

RATE_WINDOW == 5 * 60 * 1000

Undefined == [t |-> "undefined"]

Str(chars) == [t |-> "string", v |-> chars]

Num(n) == [t |-> "number", v |-> n]

(* ------------------------------ strings -------------------------------- *)

Upper == <<"A", "B", "C", "D", "E", "F", "G", "H", "I", "J", "K", "L", "M", "N", "O", "P", "Q", "R", "S", "T", "U", "V", "W", "X", "Y", "Z">>

Lower == <<"a", "b", "c", "d", "e", "f", "g", "h", "i", "j", "k", "l", "m", "n", "o", "p", "q", "r", "s", "t", "u", "v", "w", "x", "y", "z">>

\* String.prototype.toLowerCase on one character, then on a string.
UpperSet == {Upper[i] : i \in 1..Len(Upper)}

lowerOf == [c \in UpperSet |-> Lower[CHOOSE i \in 1..Len(Upper) : Upper[i] = c]]

LowerChar(c) == IF c \in UpperSet THEN lowerOf[c] ELSE c

\* A comparison that keeps the letter case.
keepCase(s) == s

toLowerCase(s) == [i \in 1..Len(s) |-> LowerChar(s[i])]

\* String.prototype.includes: sub occurs in s as a contiguous substring.
includes(s, sub) ==
  \E i \in 0..(Len(s) - Len(sub)) : SubSeq(s, i + 1, i + Len(sub)) = sub

(* --------------------------- relevance filter -------------------------- *)

northstoweKeywords ==
  << <<"n", "o", "r", "t", "h", "s", "t", "o", "w", "e">>,
     <<"n", "o", "r", "t", "h", " ", "s", "t", "o", "w", "e">>,
     <<"c", "a", "m", "b", "r", "i", "d", "g", "e">>,
     <<"c", "a", "m", "b", "r", "i", "d", "g", "e", "s", "h", "i", "r", "e">>,
     <<"t", "o", "w", "n", " ", "c", "o", "u", "n", "c", "i", "l">>,
     <<"c", "o", "m", "m", "u", "n", "i", "t", "y">>,
     <<"l", "o", "c", "a", "l">>,
     <<"n", "e", "i", "g", "h", "b", "o", "u", "r", "h", "o", "o", "d">>,
     <<"g", "p">>,
     <<"d", "o", "c", "t", "o", "r">>,
     <<"s", "u", "r", "g", "e", "r", "y">>,
     <<"m", "e", "d", "i", "c", "a", "l">>,
     <<"h", "e", "a", "l", "t", "h">>,
     <<"s", "c", "h", "o", "o", "l">>,
     <<"e", "d", "u", "c", "a", "t", "i", "o", "n">>,
     <<"p", "r", "i", "m", "a", "r", "y", " ", "s", "c", "h", "o", "o", "l">>,
     <<"s", "e", "c", "o", "n", "d", "a", "r", "y", " ", "s", "c", "h", "o", "o", "l">>,
     <<"t", "r", "a", "n", "s", "p", "o", "r", "t">>,
     <<"b", "u", "s">>,
     <<"t", "r", "a", "i", "n">>,
     <<"c", "y", "c", "l", "i", "n", "g">>,
     <<"w", "a", "l", "k", "i", "n", "g">>,
     <<"s", "h", "o", "p", "s">>,
     <<"s", "h", "o", "p", "p", "i", "n", "g">>,
     <<"s", "u", "p", "e", "r", "m", "a", "r", "k", "e", "t">>,
     <<"t", "e", "s", "c", "o">>,
     <<"p", "h", "a", "r", "m", "a", "c", "y">>,
     <<"l", "i", "b", "r", "a", "r", "y">>,
     <<"c", "o", "m", "m", "u", "n", "i", "t", "y", " ", "c", "e", "n", "t", "r", "e">>,
     <<"c", "h", "u", "r", "c", "h">>,
     <<"f", "a", "c", "i", "l", "i", "t", "i", "e", "s">>,
     <<"h", "o", "u", "s", "i", "n", "g">>,
     <<"d", "e", "v", "e", "l", "o", "p", "m", "e", "n", "t">>,
     <<"p", "l", "a", "n", "n", "i", "n", "g">>,
     <<"c", "o", "n", "s", "t", "r", "u", "c", "t", "i", "o", "n">>,
     <<"p", "a", "r", "k">>,
     <<"g", "r", "e", "e", "n", " ", "s", "p", "a", "c", "e">>,
     <<"r", "e", "c", "r", "e", "a", "t", "i", "o", "n">>,
     <<"s", "p", "o", "r", "t">>,
     <<"p", "o", "l", "i", "c", "e">>,
     <<"f", "i", "r", "e", " ", "s", "e", "r", "v", "i", "c", "e">>,
     <<"e", "m", "e", "r", "g", "e", "n", "c", "y", " ", "s", "e", "r", "v", "i", "c", "e", "s">> >>

\* keyword.toLowerCase() of every list entry, computed once.
loweredKeywords ==
  [k \in 1..Len(northstoweKeywords) |-> toLowerCase(northstoweKeywords[k])]

isNorthstoweRelated(query) ==
  LET lowerQuery == toLowerCase(query) IN
  IF includes(lowerQuery, <<"n", "o", "r", "t", "h", "s", "t", "o", "w", "e">>)
     \/ includes(lowerQuery, <<"n", "o", "r", "t", "h", " ", "s", "t", "o", "w", "e">>)
    THEN TRUE
    ELSE \E k \in 1..Len(loweredKeywords) : includes(lowerQuery, loweredKeywords[k])

(* ----------------------------- query enhancer -------------------------- *)

ContextSuffix ==
  << " ", "i", "n", " ", "N", "o", "r", "t", "h", "s", "t", "o", "w", "e",
     ",", " ", "C", "a", "m", "b", "r", "i", "d", "g", "e", "s", "h", "i",
     "r", "e", ",", " ", "U", "K", ".", " ", "N", "o", "r", "t", "h", "s",
     "t", "o", "w", "e", " ", "i", "s", " ", "a", " ", "n", "e", "w", " ",
     "t", "o", "w", "n", " ", "d", "e", "v", "e", "l", "o", "p", "m", "e",
     "n", "t", " ", "i", "n", " ", "S", "o", "u", "t", "h", " ", "C", "a",
     "m", "b", "r", "i", "d", "g", "e", "s", "h", "i", "r", "e", "." >>

enhanceQueryForNorthstowe(query) == query \o ContextSuffix

(* ------------- relevance filter and enhancers of index.tsx ------------- *)

\* The keyword list of index.tsx: the list of chat.ts followed by place and
\* refuse-collection terms.
northstoweKeywordsLenient ==
  northstoweKeywords \o
  << <<"u", "n", "i", "t", "y", " ", "c", "e", "n", "t", "r", "e">>,
     <<"u", "n", "i", "t", "y", " ", "c", "e", "n", "t", "e", "r">>,
     <<"c", "a", "b", "i", "n">>,
     <<"c", "o", "m", "m", "u", "n", "i", "t", "y", " ", "h", "u", "b">>,
     <<"c", "y", "c", "l", "e", " ", "p", "a", "t", "h">>,
     <<"g", "u", "i", "d", "e", "d", " ", "b", "u", "s", "w", "a", "y">>,
     <<"p", "h", "a", "s", "e">>,
     <<"d", "e", "v", "e", "l", "o", "p", "m", "e", "n", "t">>,
     <<"b", "i", "n", " ", "c", "o", "l", "l", "e", "c", "t", "i", "o", "n">>,
     <<"b", "i", "n", "s">>,
     <<"r", "u", "b", "b", "i", "s", "h">>,
     <<"r", "e", "c", "y", "c", "l", "i", "n", "g">>,
     <<"w", "a", "s", "t", "e">>,
     <<"r", "e", "f", "u", "s", "e">>,
     <<"c", "o", "l", "l", "e", "c", "t", "i", "o", "n", " ", "d", "a", "y">>,
     <<"b", "l", "a", "c", "k", " ", "b", "i", "n">>,
     <<"b", "l", "u", "e", " ", "b", "i", "n">>,
     <<"g", "r", "e", "e", "n", " ", "b", "i", "n">>,
     <<"h", "e", "r", "o", "n", " ", "r", "o", "a", "d">>,
     <<"r", "o", "a", "d">>,
     <<"s", "t", "r", "e", "e", "t">>,
     <<"a", "v", "e", "n", "u", "e">>,
     <<"c", "l", "o", "s", "e">>,
     <<"w", "a", "y">> >>

loweredKeywordsLenient ==
  [k \in 1..Len(northstoweKeywordsLenient) |->
     toLowerCase(northstoweKeywordsLenient[k])]

followUpKeywords ==
  << <<"w", "h", "e", "n">>,
     <<"w", "h", "e", "r", "e">>,
     <<"h", "o", "w">>,
     <<"w", "h", "a", "t">>,
     <<"w", "h", "o">>,
     <<"w", "h", "y">>,
     <<"w", "h", "i", "c", "h">>,
     <<"o", "p", "e", "n", "i", "n", "g">>,
     <<"a", "v", "a", "i", "l", "a", "b", "l", "e">>,
     <<"c", "o", "s", "t">>,
     <<"p", "r", "i", "c", "e">>,
     <<"t", "i", "m", "e">>,
     <<"d", "a", "t", "e">>,
     <<"c", "o", "n", "t", "a", "c", "t">>,
     <<"p", "h", "o", "n", "e">>,
     <<"e", "m", "a", "i", "l">>,
     <<"a", "d", "d", "r", "e", "s", "s">>,
     <<"l", "o", "c", "a", "t", "i", "o", "n">>,
     <<"m", "o", "r", "e", " ", "i", "n", "f", "o", "r", "m", "a", "t", "i", "o", "n">>,
     <<"d", "e", "t", "a", "i", "l", "s">>,
     <<"u", "p", "d", "a", "t", "e">>,
     <<"s", "t", "a", "t", "u", "s">>,
     <<"i", "t">>,
     <<"t", "h", "i", "s">>,
     <<"t", "h", "a", "t">>,
     <<"t", "h", "e", "y">>,
     <<"t", "h", "e", "r", "e">>,
     <<"h", "e", "r", "e">>,
     <<"a", "l", "s", "o">>,
     <<"a", "d", "d", "i", "t", "i", "o", "n", "a", "l", "l", "y">>,
     <<"f", "u", "r", "t", "h", "e", "r", "m", "o", "r", "e">>,
     <<"m", "o", "r", "e", "o", "v", "e", "r">>,
     <<"n", "e", "a", "r", "e", "s", "t">>,
     <<"c", "l", "o", "s", "e", "s", "t">>,
     <<"b", "e", "s", "t">>,
     <<"r", "e", "c", "o", "m", "m", "e", "n", "d", "e", "d">> >>

\* String.prototype.trim: white space and line terminators leave both ends.
WhiteSpace == {" ", "\n", "\t", "\r"}

trim(s) ==
  LET kept == {i \in 1..Len(s) : s[i] \notin WhiteSpace} IN
  IF kept = {}
    THEN <<>>
    ELSE SubSeq(s, CHOOSE i \in kept : \A j \in kept : i <= j,
                   CHOOSE i \in kept : \A j \in kept : j <= i)

\* The regular expressions /head.*(tail|tail|tail)/i.
localServicePatterns ==
  << [head |-> <<"w", "h", "e", "n">>,
      tails |-> {<<"o", "p", "e", "n">>, <<"c", "l", "o", "s", "e">>, <<"a", "v", "a", "i", "l", "a", "b", "l", "e">>}],
     [head |-> <<"w", "h", "e", "r", "e">>,
      tails |-> {<<"i", "s">>, <<"a", "r", "e">>, <<"c", "a", "n">>}],
     [head |-> <<"h", "o", "w">>,
      tails |-> {<<"g", "e", "t">>, <<"r", "e", "a", "c", "h">>, <<"c", "o", "n", "t", "a", "c", "t">>}],
     [head |-> <<"w", "h", "a", "t">>,
      tails |-> {<<"t", "i", "m", "e">>, <<"d", "a", "y">>, <<"h", "o", "u", "r">>}],
     [head |-> <<"i", "s">>,
      tails |-> {<<"o", "p", "e", "n">>, <<"a", "v", "a", "i", "l", "a", "b", "l", "e">>, <<"r", "e", "a", "d", "y">>}],
     [head |-> <<"a", "r", "e">>,
      tails |-> {<<"t", "h", "e", "r", "e">>, <<"a", "n", "y">>, <<"o", "p", "e", "n">>}] >>

\* The dot of a regular expression matches no line terminator.
LineTerminators == {"\n", "\r"}

\* RegExp.prototype.test for /head.*(tail|...)/i: head occurs, a tail occurs
\* after it, and no line terminator lies between them; letters compare
\* without case.
test(pattern, s) ==
  LET low == toLowerCase(s)
      at(sub, i) ==
        i + Len(sub) - 1 <= Len(low) /\ SubSeq(low, i, i + Len(sub) - 1) = sub
  IN \E i \in 1..Len(low) :
       /\ at(pattern.head, i)
       /\ \E j \in (i + Len(pattern.head))..Len(low) :
            /\ \E t \in pattern.tails : at(t, j)
            /\ \A k \in (i + Len(pattern.head))..(j - 1) :
                 low[k] \notin LineTerminators

\* A filter that takes a question for local when nothing has matched.
isNorthstoweRelatedAssumeLocal(query) == TRUE

\* isNorthstoweRelated of index.tsx: the direct mention, the keyword list,
\* the follow-up list for short questions, then the patterns.
isNorthstoweRelatedLenient(query) ==
  LET lowerQuery == toLowerCase(query) IN
  IF includes(lowerQuery, <<"n", "o", "r", "t", "h", "s", "t", "o", "w", "e">>)
     \/ includes(lowerQuery, <<"n", "o", "r", "t", "h", " ", "s", "t", "o", "w", "e">>)
    THEN TRUE
  ELSE IF \E k \in 1..Len(loweredKeywordsLenient) :
            includes(lowerQuery, loweredKeywordsLenient[k])
    THEN TRUE
  ELSE IF /\ Len(trim(query)) <= 50
          /\ \E k \in 1..Len(followUpKeywords) :
               includes(lowerQuery, toLowerCase(followUpKeywords[k]))
    THEN TRUE
  ELSE \E p \in 1..Len(localServicePatterns) : test(localServicePatterns[p], query)

MeetingSearch ==
  << "s", "i", "t", "e", ":", "n", "o", "r", "t", "h", "s", "t",
     "o", "w", "e", "t", "o", "w", "n", "c", "o", "u", "n", "c",
     "i", "l", ".", "g", "o", "v", ".", "u", "k", " ", "N", "o",
     "r", "t", "h", "s", "t", "o", "w", "e", " ", "T", "o", "w",
     "n", " ", "C", "o", "u", "n", "c", "i", "l", " ", "m", "e",
     "e", "t", "i", "n", "g", " ", "a", "g", "e", "n", "d", "a",
     " ", "S", "e", "p", "t", "e", "m", "b", "e", "r", " ", "2",
     "0", "2", "4", " ", "2", "0", "2", "5", " ", "\"", "2", "3",
     " ", "S", "e", "p", "t", "e", "m", "b", "e", "r", "\"", " ",
     "\"", "2", "3", "r", "d", " ", "S", "e", "p", "t", "e", "m",
     "b", "e", "r", "\"", " ", "\"", "S", "e", "p", "t", "e", "m",
     "b", "e", "r", " ", "2", "3", "\"", " ", "n", "e", "x", "t",
     " ", "u", "p", "c", "o", "m", "i", "n", "g", " ", "m", "e",
     "e", "t", "i", "n", "g", " ", "a", "f", "t", "e", "r", " " >>

MeetingSuffix ==
  << " ", "N", "o", "r", "t", "h", "s", "t", "o", "w", "e", " ",
     "T", "o", "w", "n", " ", "C", "o", "u", "n", "c", "i", "l",
     " ", "m", "e", "e", "t", "i", "n", "g", " ", "s", "c", "h",
     "e", "d", "u", "l", "e", " ", "u", "p", "c", "o", "m", "i",
     "n", "g", " ", "d", "a", "t", "e", "s" >>

BinSuffix ==
  << " ", "N", "o", "r", "t", "h", "s", "t", "o", "w", "e", " ",
     "b", "i", "n", " ", "c", "o", "l", "l", "e", "c", "t", "i",
     "o", "n", " ", "s", "c", "h", "e", "d", "u", "l", "e", " ",
     "n", "e", "x", "t", " ", "F", "r", "i", "d", "a", "y" >>

TransportSuffix ==
  << " ", "N", "o", "r", "t", "h", "s", "t", "o", "w", "e", " ",
     "b", "u", "s", " ", "t", "r", "a", "n", "s", "p", "o", "r",
     "t", " ", "t", "i", "m", "e", "t", "a", "b", "l", "e", " ",
     "r", "o", "u", "t", "e" >>

FacilitySuffix ==
  << " ", "N", "o", "r", "t", "h", "s", "t", "o", "w", "e", " ",
     "o", "p", "e", "n", "i", "n", "g", " ", "t", "i", "m", "e",
     "s", " ", "c", "o", "n", "s", "t", "r", "u", "c", "t", "i",
     "o", "n", " ", "t", "i", "m", "e", "l", "i", "n", "e" >>

DefaultSuffix ==
  << " ", "i", "n", " ", "N", "o", "r", "t", "h", "s", "t", "o",
     "w", "e", ",", " ", "C", "a", "m", "b", "r", "i", "d", "g",
     "e", "s", "h", "i", "r", "e", ",", " ", "U", "K", ".", " ",
     "F", "i", "n", "d", " ", "s", "p", "e", "c", "i", "f", "i",
     "c", " ", "c", "u", "r", "r", "e", "n", "t", " ", "i", "n",
     "f", "o", "r", "m", "a", "t", "i", "o", "n", ",", " ", "d",
     "a", "t", "e", "s", ",", " ", "t", "i", "m", "e", "s", ",",
     " ", "s", "c", "h", "e", "d", "u", "l", "e", "s", ",", " ",
     "c", "o", "n", "t", "a", "c", "t", " ", "d", "e", "t", "a",
     "i", "l", "s", "." >>

\* The branches both enhancers of index.tsx share: what is appended to a
\* query about bins, about transport, about a facility, or about none of these.
topicSuffix(lowerQuery) ==
  IF \/ includes(lowerQuery, <<"b", "i", "n">>)
     \/ includes(lowerQuery, <<"c", "o", "l", "l", "e", "c", "t", "i", "o", "n">>)
     \/ includes(lowerQuery, <<"w", "a", "s", "t", "e">>)
     \/ includes(lowerQuery, <<"r", "u", "b", "b", "i", "s", "h">>)
    THEN BinSuffix
  ELSE IF \/ includes(lowerQuery, <<"b", "u", "s">>)
          \/ includes(lowerQuery, <<"t", "r", "a", "n", "s", "p", "o", "r", "t">>)
          \/ includes(lowerQuery, <<"t", "r", "a", "v", "e", "l">>)
    THEN TransportSuffix
  ELSE IF \/ includes(lowerQuery, <<"o", "p", "e", "n">>)
          \/ includes(lowerQuery, <<"c", "e", "n", "t", "r", "e">>)
          \/ includes(lowerQuery, <<"c", "e", "n", "t", "e", "r">>)
          \/ includes(lowerQuery, <<"f", "a", "c", "i", "l", "i", "t", "y">>)
    THEN FacilitySuffix
  ELSE DefaultSuffix

aboutMeeting(lowerQuery) ==
  \/ includes(lowerQuery, <<"m", "e", "e", "t", "i", "n", "g">>)
  \/ includes(lowerQuery, <<"c", "o", "u", "n", "c", "i", "l">>)

\* enhanceQueryForNorthstowe of index.tsx, first handler: a question about a
\* meeting becomes a site search that ends with today's date.
enhanceQueryForNorthstoweMeeting(query, currentDate) ==
  LET lowerQuery == toLowerCase(query) IN
  IF aboutMeeting(lowerQuery)
    THEN MeetingSearch \o currentDate
    ELSE query \o topicSuffix(lowerQuery)

\* enhanceQueryForNorthstowe of index.tsx, second handler.
enhanceQueryForNorthstoweTopics(query) ==
  LET lowerQuery == toLowerCase(query) IN
  IF aboutMeeting(lowerQuery)
    THEN query \o MeetingSuffix
    ELSE query \o topicSuffix(lowerQuery)

(* -------------------------------- gate --------------------------------- *)

\* A header, socket or environment value: absent, or a string.
Text(s) == [t |-> "string", v |-> s]

\* JavaScript truthiness of the values the handler tests with || and !.
Truthy(x) ==
  CASE x.t = "undefined" -> FALSE
    [] x.t = "number" -> x.v # 0
    [] x.t = "string" -> Len(x.v) > 0

TruthyText(x) == x.t = "string" /\ x.v # ""

\* A key that prefers the socket address to the header.
getRateLimitKeySocketFirst(req) ==
  IF TruthyText(req.remoteAddress) THEN req.remoteAddress.v
  ELSE IF TruthyText(req.xff) THEN req.xff.v
  ELSE "unknown"

\* req.headers['x-forwarded-for'] || req.connection.remoteAddress || 'unknown'
getRateLimitKey(req) ==
  IF TruthyText(req.xff) THEN req.xff.v
  ELSE IF TruthyText(req.remoteAddress) THEN req.remoteAddress.v
  ELSE "unknown"

\* A store that keeps the entry of one key alone.
MapSetAlone(m, key, entry) == [k \in {key} |-> entry]

\* Map.prototype.set
MapSet(m, key, entry) ==
  [k \in DOMAIN m \cup {key} |-> IF k = key THEN entry ELSE m[k]]

\* A fresh entry that forgets to count the request that creates it.
FreshEntryZero(t) == [count |-> 0, resetTime |-> t + RATE_WINDOW]

\* { count: 1, resetTime: now + RATE_WINDOW }
FreshEntry(t) == [count |-> 1, resetTime |-> t + RATE_WINDOW]

\* An expiry test that also fires at now = resetTime.
WindowExpiredInclusive(t, userLimit) == t >= userLimit.resetTime

\* now > userLimit.resetTime
WindowExpired(t, userLimit) == t > userLimit.resetTime

\* A limit test that is off by one.
AtLimitAbove(userLimit) == userLimit.count > RATE_LIMIT

\* userLimit.count >= RATE_LIMIT
AtLimit(userLimit) == userLimit.count >= RATE_LIMIT

\* A gate that tests the limit before the expiry of the window.
isRateLimitedLimitFirst(m, key, t) ==
  IF key \notin DOMAIN m
    THEN [limited |-> FALSE, map |-> MapSet(m, key, FreshEntry(t))]
  ELSE IF AtLimit(m[key])
    THEN [limited |-> TRUE, map |-> m]
  ELSE IF WindowExpired(t, m[key])
    THEN [limited |-> FALSE, map |-> MapSet(m, key, FreshEntry(t))]
  ELSE [limited |-> FALSE, map |-> [m EXCEPT ![key].count = @ + 1]]

\* A gate that counts the request before it tests the limit.
isRateLimitedCountFirst(m, key, t) ==
  IF key \notin DOMAIN m
    THEN [limited |-> FALSE, map |-> MapSet(m, key, FreshEntry(t))]
  ELSE IF WindowExpired(t, m[key])
    THEN [limited |-> FALSE, map |-> MapSet(m, key, FreshEntry(t))]
  ELSE IF AtLimit(m[key])
    THEN [limited |-> TRUE, map |-> [m EXCEPT ![key].count = @ + 1]]
  ELSE [limited |-> FALSE, map |-> [m EXCEPT ![key].count = @ + 1]]

\* isRateLimited(key) at Date.now() = t on map m: the returned boolean and
\* the map it leaves.
isRateLimited(m, key, t) ==
  IF key \notin DOMAIN m
    THEN [limited |-> FALSE, map |-> MapSet(m, key, FreshEntry(t))]
  ELSE IF WindowExpired(t, m[key])
    THEN [limited |-> FALSE, map |-> MapSet(m, key, FreshEntry(t))]
  ELSE IF AtLimit(m[key])
    THEN [limited |-> TRUE, map |-> m]
  ELSE [limited |-> FALSE, map |-> [m EXCEPT ![key].count = @ + 1]]

(* ------------------------------- handler ------------------------------- *)

RateLimitedBody ==
  [error |-> "Too many requests. Please wait a moment before asking another question.",
   rateLimited |-> TRUE]

\* The refusal without its flag.
NotRelatedBodyNoFlag ==
  [response |-> "I'm sorry, I can only answer questions related to Northstowe. Please ask me about local services, facilities, developments, or community information in Northstowe."]

NotRelatedBody ==
  [response |-> "I'm sorry, I can only answer questions related to Northstowe. Please ask me about local services, facilities, developments, or community information in Northstowe.",
   notRelated |-> TRUE]

\* A validation that tests the type alone.
InvalidMessageTypeOnly(message) == message.t # "string"

\* !message || typeof message !== 'string'
InvalidMessage(message) == ~Truthy(message) \/ message.t # "string"

\* A response sent before the upstream call.
Sent(m, gate, status, body) ==
  [map |-> m, gate |-> gate, await |-> FALSE, status |-> status, body |-> body]

\* The suspension on axios.post, with the user message it carries.
Awaiting(m, content) ==
  [map |-> m, gate |-> "allowed", await |-> TRUE, content |-> content]

\* A handler that tests the credential before the relevance filter.
afterGateKeyFirst(req, m, key) ==
  IF InvalidMessage(req.message)
    THEN Sent(m, "allowed", 400, [error |-> "Message is required"])
  ELSE IF ~TruthyText(key)
    THEN Sent(m, "allowed", 500, [error |-> "API key not configured"])
  ELSE IF ~isNorthstoweRelated(req.message.v)
    THEN Sent(m, "allowed", 200, NotRelatedBody)
  ELSE Awaiting(m, enhanceQueryForNorthstowe(req.message.v))

\* The handler once the gate has let the request through, up to its response
\* or to the await on axios.post; key is process.env.PERPLEXITY_API_KEY.
afterGate(req, m, key) ==
  IF InvalidMessage(req.message)
    THEN Sent(m, "allowed", 400, [error |-> "Message is required"])
  ELSE IF ~isNorthstoweRelated(req.message.v)
    THEN Sent(m, "allowed", 200, NotRelatedBody)
  ELSE IF ~TruthyText(key)
    THEN Sent(m, "allowed", 500, [error |-> "API key not configured"])
  ELSE Awaiting(m, enhanceQueryForNorthstowe(req.message.v))

\* A handler that runs the gate before the method check.
handlerSyncGateFirst(req, m, t, key) ==
  LET g == isRateLimited(m, getRateLimitKey(req), t) IN
  IF g.limited
    THEN Sent(g.map, "blocked", 429, RateLimitedBody)
  ELSE IF req.method # "POST"
    THEN Sent(g.map, "allowed", 405, [error |-> "Method not allowed"])
  ELSE afterGate(req, g.map, key)

\* A handler that validates the body before it runs the gate.
handlerSyncValidateFirst(req, m, t, key) ==
  IF req.method # "POST"
    THEN Sent(m, "skipped", 405, [error |-> "Method not allowed"])
  ELSE IF InvalidMessage(req.message)
    THEN Sent(m, "skipped", 400, [error |-> "Message is required"])
  ELSE
    LET g == isRateLimited(m, getRateLimitKey(req), t) IN
    IF g.limited
      THEN Sent(g.map, "blocked", 429, RateLimitedBody)
      ELSE afterGate(req, g.map, key)

\* The handler from its entry to its first response or to the await, on map
\* m at Date.now() = t.
handlerSync(req, m, t, key) ==
  IF req.method # "POST"
    THEN Sent(m, "skipped", 405, [error |-> "Method not allowed"])
  ELSE
    LET g == isRateLimited(m, getRateLimitKey(req), t) IN
    IF g.limited
      THEN Sent(g.map, "blocked", 429, RateLimitedBody)
      ELSE afterGate(req, g.map, key)

\* A first-content lookup that reads the last choice.
FirstContentLast(choices) ==
  IF Len(choices) = 0 THEN Undefined
  ELSE IF "message" \notin DOMAIN choices[Len(choices)] THEN Undefined
  ELSE Str(choices[Len(choices)].message.content)

\* response.data.choices[0]?.message?.content
FirstContent(choices) ==
  IF Len(choices) = 0 THEN Undefined
  ELSE IF "message" \notin DOMAIN choices[1] THEN Undefined
  ELSE Str(choices[1].message.content)

\* A try block that sends whatever content it read.
onFulfilledUnchecked(choices) ==
  LET aiResponse == FirstContent(choices) IN
  [status |-> 200,
   body |-> [response |-> IF aiResponse.t = "string" THEN aiResponse.v ELSE <<>>]]

\* The rest of the try block once axios.post has resolved.
onFulfilled(choices) ==
  LET aiResponse == FirstContent(choices) IN
  IF ~Truthy(aiResponse)
    THEN [status |-> 500, body |-> [error |-> "No response from AI service"]]
    ELSE [status |-> 200, body |-> [response |-> aiResponse.v]]

\* A catch block that hands the upstream status on.
onRejectedPassThrough(outcome) ==
  IF outcome.kind = "http"
    THEN [status |-> outcome.status,
          body |-> [error |-> "Failed to get response. Please try again."]]
    ELSE [status |-> 500, body |-> [error |-> "Failed to get response. Please try again."]]

\* A catch block that hands the upstream error body on.
onRejectedLeaking(outcome) ==
  IF outcome.kind = "http"
    THEN [status |-> IF outcome.status = 429 THEN 429 ELSE 500,
          body |-> [error |-> outcome.data]]
    ELSE [status |-> 500, body |-> [error |-> "Failed to get response. Please try again."]]

\* The catch block: outcome is what was thrown, an axios error with a
\* response (kind "http"), one without, or a TypeError of the try block.
onRejected(outcome) ==
  IF outcome.kind = "http" /\ outcome.status = 401
    THEN [status |-> 500,
          body |-> [error |-> "API authentication failed - check your Perplexity API key"]]
  ELSE IF outcome.kind = "http" /\ outcome.status = 429
    THEN [status |-> 429,
          body |-> [error |-> "API rate limit exceeded. Please try again later."]]
  ELSE IF outcome.kind = "http" /\ outcome.status = 403
    THEN [status |-> 500,
          body |-> [error |-> "API access forbidden - check your Perplexity API key permissions"]]
  ELSE [status |-> 500, body |-> [error |-> "Failed to get response. Please try again."]]

\* The handler after the await: the response it sends for an upstream
\* outcome.  A 2xx body without a choices array makes line 165 throw, and the
\* catch block answers.
handlerResume(outcome) ==
  IF outcome.kind = "ok" /\ "choices" \in DOMAIN outcome
    THEN onFulfilled(outcome.choices)
    ELSE onRejected(outcome)

(* ------------------------------ inputs --------------------------------- *)

\* The clock readings: 0, then the end of each window and the millisecond
\* after it (0, W, W + 1, 2W, 2W + 1, ...).
Instant(i) ==
  IF i = 0 THEN 0 ELSE ((i + 1) \div 2) * RATE_WINDOW + ((i + 1) % 2)

Instants == {Instant(i) : i \in 0..MaxInstant}

Methods == {"POST", "GET"}

\* Neither address known; a direct connection; a client behind a proxy.
Connections ==
  {[xff |-> Undefined, remoteAddress |-> Undefined],
   [xff |-> Undefined, remoteAddress |-> Text("203.0.113.7")],
   [xff |-> Text("203.0.113.7"), remoteAddress |-> Text("10.0.0.2")]}

\* req.body.message: missing, not a string, empty, out of scope, in scope.
Messages ==
  {Undefined, Num(42), Str(<<>>), Str(<<"H", "i">>), Str(<<"G", "P", "?">>)}

Requests ==
  {[method |-> m, xff |-> c.xff, remoteAddress |-> c.remoteAddress, message |-> b] :
     m \in Methods, c \in Connections, b \in Messages}

EnvValues == {Undefined, Text("pplx-key")}

\* Error bodies the upstream API sends with a failure status.
UpstreamErrorData == {"Invalid API key provided", "Monthly quota exceeded"}

\* What axios.post settles with: a 2xx body, an HTTP error with its body,
\* or no response at all.
UpstreamOutcomes ==
  {[kind |-> "ok", choices |-> <<[message |-> [content |-> <<"O", "k">>]]>>],
   [kind |-> "ok", choices |-> <<[message |-> [content |-> <<"O", "k">>]],
                                 [message |-> [content |-> <<"N", "o">>]]>>],
   [kind |-> "ok", choices |-> <<[message |-> [content |-> <<>>]]>>],
   [kind |-> "ok", choices |-> <<[index |-> 0]>>],
   [kind |-> "ok", choices |-> <<>>],
   [kind |-> "ok"],
   [kind |-> "network"],
   [kind |-> "timeout"]}
  \cup {[kind |-> "http", status |-> s, data |-> "Invalid API key provided"] :
          s \in {401, 403, 429, 500}}

\* The same, with each failure status carrying either error body.
UpstreamOutcomesAnyBody ==
  UpstreamOutcomes \cup
  {[kind |-> "http", status |-> s, data |-> d] :
     s \in {401, 403, 429, 500}, d \in UpstreamErrorData}

(* ------------------------------- state --------------------------------- *)

Init ==
  /\ now = 0
  /\ rateLimitMap = <<>>
  /\ apiKey \in EnvValues
  /\ inflight = <<>>
  /\ last = [ev |-> "none"]
  /\ allowedLog = <<>>
  /\ earlier = [ev |-> "none"]
  /\ draft = <<>>
  /\ verdict = [of |-> "none"]
  /\ started = <<>>
  /\ probe = [pc |-> "idle"]
  /\ page = [messages |-> <<>>, requests |-> 0, input |-> <<>>, isLoading |-> FALSE,
             rateLimitInfo |-> [isLimited |-> FALSE]]

\* Time passes between requests.
Tick ==
  /\ \E t \in Instants : t > now /\ now' = t
  /\ UNCHANGED <<rateLimitMap, apiKey, inflight, last, allowedLog, otherVars, stepVars>>

\* One invocation of the chat handler, up to its response or its await.
Invoke(req) ==
  LET r == handlerSync(req, rateLimitMap, now, apiKey) IN
  /\ r.await => Len(inflight) < MaxInflight
  /\ rateLimitMap' = r.map
  /\ inflight' =
       IF r.await
         THEN Append(inflight, [content |-> r.content, calls |-> 1])
         ELSE inflight
  /\ last' = [ev |-> "handle", req |-> req, at |-> now, mapBefore |-> rateLimitMap,
              inflightBefore |-> inflight, gate |-> r.gate, await |-> r.await,
              status |-> IF r.await THEN 0 ELSE r.status,
              body |-> IF r.await THEN <<>> ELSE r.body,
              calls |-> IF r.await THEN 1 ELSE 0]
  /\ UNCHANGED <<now, apiKey, otherVars, stepVars>>

Handle(req) == Invoke(req) /\ UNCHANGED allowedLog

\* The same invocation, observed: the time of every request the gate let
\* through is appended to its key's log.  Times more than one window old
\* are dropped: no window that is still open contains them.
Recent(times, t) == SelectSeq(times, LAMBDA x : x >= t - RATE_WINDOW)

Logged(log, req, gate, t) ==
  IF gate = "allowed"
    THEN LET key == getRateLimitKey(req) IN
         MapSet(log, key,
                IF key \in DOMAIN log THEN Append(Recent(log[key], t), t) ELSE <<t>>)
    ELSE log

HandleLogged(req) ==
  /\ Invoke(req)
  /\ allowedLog' = Logged(allowedLog, req, last'.gate, now)

\* Sequence s without its i-th element.
Remove(s, i) == SubSeq(s, 1, i - 1) \o SubSeq(s, i + 1, Len(s))

\* A handler that calls upstream once more when the call has failed.
ResumeRetrying(s, outcome) ==
  /\ s \in 1..Len(inflight)
  /\ IF outcome.kind = "ok"
       THEN /\ last' = [ev |-> "reply", content |-> inflight[s].content,
                        outcome |-> outcome, inflightBefore |-> inflight,
                        status |-> handlerResume(outcome).status,
                        body |-> handlerResume(outcome).body,
                        calls |-> inflight[s].calls]
            /\ inflight' = Remove(inflight, s)
       ELSE /\ last' = last
            /\ inflight' = [inflight EXCEPT ![s].calls = @ + 1]
  /\ UNCHANGED <<now, rateLimitMap, apiKey, allowedLog, draft, verdict, page, stepVars>>

\* The upstream call of the s-th suspended invocation settles and the handler
\* sends its response.
Resume(s, outcome) ==
  /\ s \in 1..Len(inflight)
  /\ LET r == handlerResume(outcome) IN
     last' = [ev |-> "reply", content |-> inflight[s].content, outcome |-> outcome,
              inflightBefore |-> inflight,
              status |-> r.status, body |-> r.body, calls |-> inflight[s].calls]
  /\ inflight' = Remove(inflight, s)
  /\ UNCHANGED <<now, rateLimitMap, apiKey, allowedLog, draft, verdict, page, stepVars>>

Reply(s, outcome) == Resume(s, outcome) /\ UNCHANGED earlier

Next ==
  \/ Tick
  \/ \E req \in Requests : Handle(req)
  \/ \E s \in 1..MaxInflight, outcome \in UpstreamOutcomes : Reply(s, outcome)

Spec == Init /\ [][Next]_vars

\* POST traffic that ends before the upstream call, with the gate observed.
GateRequests ==
  {r \in Requests : r.method = "POST" /\ r.message = Str(<<"H", "i">>)}

GateNext ==
  \/ Tick
  \/ \E req \in GateRequests : HandleLogged(req)

GateSpec == Init /\ [][GateNext]_vars

\* In-scope POST traffic, with an earlier reply kept beside the last one so
\* that two requests can be compared.
UpstreamRequests ==
  {r \in Requests : r.method = "POST" /\ r.message = Str(<<"G", "P", "?">>)}

Remember(s, outcome) ==
  /\ Resume(s, outcome)
  /\ earlier' \in {earlier, last'}

UpstreamNext ==
  \/ \E req \in UpstreamRequests : Handle(req)
  \/ \E s \in 1..MaxInflight, outcome \in UpstreamOutcomesAnyBody :
       Remember(s, outcome)

UpstreamSpec == Init /\ [][UpstreamNext]_vars

\* A question is typed piece by piece; at most MaxParts pieces.
MaxParts == 3

\* Forty-six letters that are part of no keyword: with a four-letter word
\* they make a query of exactly 50 characters.
Filler == [i \in 1..46 |-> "z"]

\* Spellings of the locality name in mixed case.
LocalityNames ==
  {<<"N", "o", "r", "t", "h", "S", "t", "o", "w", "e">>,
   <<"n", "o", "r", "t", "h", " ", "S", "T", "O", "W", "E">>}

Fragments ==
  LocalityNames \cup
  {<<"w", "h", "e", "n">>, <<"i", "s">>, <<"o", "p", "e", "n">>,
   <<"c", "o", "u", "n", "c", "i", "l">>, <<"\n">>, Filler}

\* new Date().toLocaleDateString('en-GB') on two days.
CurrentDates ==
  {<<"0", "4", "/", "1", "1", "/", "2", "0", "2", "6">>,
   <<"2", "3", "/", "0", "9", "/", "2", "0", "2", "5">>}

RECURSIVE Concat(_)
Concat(parts) ==
  IF parts = <<>> THEN <<>> ELSE Head(parts) \o Concat(Tail(parts))

\* One more piece of the question is typed.
Type(f) ==
  /\ Len(draft) < MaxParts
  /\ draft' = Append(draft, f)
  /\ verdict' = [of |-> "none"]
  /\ UNCHANGED <<serverVars, stepVars, earlier, page>>

\* The question goes through the relevance filter and the enhancer of
\* chat.ts and through those of the handlers kept in index.tsx.
Classify(currentDate) ==
  LET query == Concat(draft) IN
  /\ verdict.of = "none"
  /\ verdict' =
       [of |-> "query",
        query |-> query,
        chat |-> isNorthstoweRelated(query),
        lenient |-> isNorthstoweRelatedLenient(query),
        enhanced |-> enhanceQueryForNorthstowe(query),
        enhancedMeeting |-> enhanceQueryForNorthstoweMeeting(query, currentDate),
        enhancedTopics |-> enhanceQueryForNorthstoweTopics(query)]
  /\ UNCHANGED <<serverVars, stepVars, earlier, draft, page>>

FilterNext ==
  \/ \E f \in Fragments : Type(f)
  \/ \E currentDate \in CurrentDates : Classify(currentDate)

FilterSpec == Init /\ [][FilterNext]_vars

\* POST traffic with every shape of the two address sources: the header
\* absent, empty or set, the socket address absent or set; the message is
\* missing, not a string, or a string.
KeyConnections ==
  {[xff |-> x, remoteAddress |-> a] :
     x \in {Undefined, Text(""), Text("203.0.113.7")},
     a \in {Undefined, Text("10.0.0.2")}}

KeyRequests ==
  {[method |-> "POST", xff |-> c.xff, remoteAddress |-> c.remoteAddress, message |-> b] :
     c \in KeyConnections, b \in {Undefined, Num(42), Str(<<"H", "i">>)}}

\* All of it within the first window: the clock stands still.
KeyNext == \E req \in KeyRequests : Handle(req)

KeySpec == Init /\ [][KeyNext]_vars

\* POST traffic whose body is missing, not a string, or a string, over time.
BodyRequests ==
  {r \in Requests :
     r.method = "POST" /\ r.message \in {Undefined, Num(42), Str(<<"H", "i">>)}}

BodyNext ==
  \/ Tick
  \/ \E req \in BodyRequests : Handle(req)

BodySpec == Init /\ [][BodyNext]_vars

\* The third argument of axios.post in chat.ts: headers, and no timeout.
axiosConfig == [headers |-> {"Authorization", "Content-Type"}]

\* The same argument in the first handler of index.tsx.
axiosConfigTimeout ==
  [headers |-> {"Authorization", "Content-Type"}, timeout |-> 30000]

\* The promise of the s-th suspended invocation settles: the upstream API
\* has answered, or the connection has failed.
UpstreamSettles(s, outcome) ==
  /\ s \in 1..Len(inflight)
  /\ "outcome" \notin DOMAIN inflight[s]
  /\ inflight' =
       [inflight EXCEPT ![s] = [content |-> @.content, calls |-> @.calls,
                                outcome |-> outcome]]
  /\ UNCHANGED <<now, rateLimitMap, apiKey, last, allowedLog, otherVars, stepVars>>

\* The timer of axios rejects the promise, when the call was given a timeout.
TimerFires(config, s) ==
  /\ "timeout" \in DOMAIN config
  /\ UpstreamSettles(s, [kind |-> "timeout"])

\* The event loop runs the rest of the handler once its promise has settled.
Continue(s) ==
  /\ s \in 1..Len(inflight)
  /\ "outcome" \in DOMAIN inflight[s]
  /\ Reply(s, inflight[s].outcome)

LiveNext ==
  \/ \E req \in UpstreamRequests : Handle(req)
  \/ \E s \in 1..MaxInflight, outcome \in UpstreamOutcomes : UpstreamSettles(s, outcome)
  \/ \E s \in 1..MaxInflight : Continue(s)

\* chat.ts: the event loop is fair to a settled promise; the upstream API
\* owes no answer, and the timer acts only if the call has one.
LiveSpec ==
  /\ Init
  /\ [][LiveNext]_vars
  /\ \A s \in 1..MaxInflight :
       WF_vars(Continue(s)) /\ WF_vars(TimerFires(axiosConfig, s))

\* The same handler with the call of index.tsx.
LiveSpecTimeout ==
  /\ Init
  /\ [][LiveNext]_vars
  /\ \A s \in 1..MaxInflight :
       WF_vars(Continue(s)) /\ WF_vars(TimerFires(axiosConfigTimeout, s))

(* ----------------- the gate, statement by statement -------------------- *)

\* Invocations of the chat handler that are followed through the gate.
MaxStarted == 6

\* A scheduler that lets an invocation run while another is inside its
\* synchronous part.
mayRunPreempted(i) == TRUE

\* JavaScript runs a call to completion: isRateLimited has no await and the
\* handler reaches its first await only after the gate, so the i-th
\* invocation runs only while no other one is between its first statement
\* and its response or its await.
mayRun(i) ==
  \A j \in 1..Len(started) : j # i => started[j].pc \in {"queued", "left"}

\* A POST arrives and its handler call waits for the event loop.
Arrive(req) ==
  /\ Len(started) < MaxStarted
  /\ started' = Append(started, [key |-> getRateLimitKey(req), pc |-> "queued"])
  /\ UNCHANGED <<serverVars, otherVars, probe>>

\* const now = Date.now(); const userLimit = rateLimitMap.get(key);
GetEntry(i) ==
  /\ i \in 1..Len(started)
  /\ started[i].pc = "queued"
  /\ mayRun(i)
  /\ started' = [started EXCEPT ![i] =
                   [key |-> @.key, pc |-> "got", at |-> now,
                    found |-> @.key \in DOMAIN rateLimitMap]]
  /\ UNCHANGED <<serverVars, otherVars, probe>>

\* The three tests of isRateLimited: a fresh entry is stored and false
\* returned, or true is returned, or the count is still to be raised.
TestEntry(i) ==
  /\ i \in 1..Len(started)
  /\ started[i].pc = "got"
  /\ mayRun(i)
  /\ LET f == started[i] IN
     IF ~f.found \/ WindowExpired(f.at, rateLimitMap[f.key])
       THEN /\ rateLimitMap' = MapSet(rateLimitMap, f.key, FreshEntry(f.at))
            /\ started' = [started EXCEPT ![i] =
                             [key |-> f.key, pc |-> "gated", limited |-> FALSE]]
     ELSE IF AtLimit(rateLimitMap[f.key])
       THEN /\ rateLimitMap' = rateLimitMap
            /\ started' = [started EXCEPT ![i] =
                             [key |-> f.key, pc |-> "gated", limited |-> TRUE]]
     ELSE /\ rateLimitMap' = rateLimitMap
          /\ started' = [started EXCEPT ![i] = [key |-> f.key, pc |-> "counting"]]
  /\ UNCHANGED <<now, apiKey, inflight, last, allowedLog, otherVars, probe>>

\* userLimit.count++; return false;
Count(i) ==
  /\ i \in 1..Len(started)
  /\ started[i].pc = "counting"
  /\ mayRun(i)
  /\ rateLimitMap' = [rateLimitMap EXCEPT ![started[i].key].count = @ + 1]
  /\ started' = [started EXCEPT ![i] =
                   [key |-> @.key, pc |-> "gated", limited |-> FALSE]]
  /\ UNCHANGED <<now, apiKey, inflight, last, allowedLog, otherVars, probe>>

\* The handler goes on from the gate to its response or to its await.
Leave(i) ==
  /\ i \in 1..Len(started)
  /\ started[i].pc = "gated"
  /\ mayRun(i)
  /\ started' = [started EXCEPT ![i].pc = "left"]
  /\ UNCHANGED <<serverVars, otherVars, probe>>

StepNext ==
  \/ \E req \in GateRequests : Arrive(req)
  \/ \E i \in 1..MaxStarted : GetEntry(i)
  \/ \E i \in 1..MaxStarted : TestEntry(i)
  \/ \E i \in 1..MaxStarted : Count(i)
  \/ \E i \in 1..MaxStarted : Leave(i)

StepSpec == Init /\ [][StepNext]_vars

(* ------------------------- the test endpoint --------------------------- *)

modelsToTest ==
  <<"sonar", "sonar-small-online", "sonar-medium-online", "sonar-small-chat",
    "llama-3.1-sonar-small-128k-online", "pplx-7b-online", "pplx-70b-online">>

\* What one axios.post of the test endpoint settles with: a 2xx body with a
\* content, with an empty choices array, or without choices; an HTTP error
\* whose body names the error; the 10 s timeout.
ProbeOutcomes ==
  {[kind |-> "ok", choices |-> <<[message |-> [content |-> <<"H", "i">>]]>>],
   [kind |-> "ok", choices |-> <<>>],
   [kind |-> "ok"],
   [kind |-> "http", status |-> 400, data |-> [error |-> "Invalid model"]],
   [kind |-> "timeout", message |-> "timeout of 10000ms exceeded"]}

\* The handler of the test endpoint from its entry to its first response or
\* to its first axios.post; key is process.env.PERPLEXITY_API_KEY.
testStart(method, key) ==
  IF method # "GET"
    THEN [pc |-> "done", method |-> method, status |-> 405,
          body |-> [error |-> "Method not allowed"], calls |-> 0]
  ELSE IF ~TruthyText(key)
    THEN [pc |-> "done", method |-> method, status |-> 500,
          body |-> [error |-> "API key not configured"], calls |-> 0]
  ELSE [pc |-> "await", method |-> method, results |-> <<>>, calls |-> 1]

\* res.status(200).json({apiKeyConfigured, apiKeyLength, results})
testRespond(p, results) ==
  [pc |-> "done", method |-> p.method, status |-> 200,
   body |-> [apiKeyConfigured |-> TRUE, results |-> results], calls |-> p.calls]

\* What the try block pushes once the call for a model has resolved, or the
\* catch block once it was rejected or line 56 has thrown.
testResult(model, outcome) ==
  IF outcome.kind = "ok" /\ "choices" \in DOMAIN outcome
    THEN [model |-> model, status |-> "success",
          response |-> IF Truthy(FirstContent(outcome.choices))
                         THEN FirstContent(outcome.choices)
                         ELSE Str(<<"N", "o", " ", "c", "o", "n", "t", "e", "n", "t">>)]
  ELSE IF outcome.kind = "ok"
    THEN [model |-> model, status |-> "failed",
          error |-> "Cannot read properties of undefined (reading '0')"]
  ELSE IF outcome.kind = "http"
    THEN [model |-> model, status |-> "failed", error |-> outcome.data.error]
  ELSE [model |-> model, status |-> "failed", error |-> outcome.message]

\* A loop that goes on to the next model after a success.
testResumeNoBreak(p, outcome) ==
  LET results == Append(p.results, testResult(modelsToTest[Len(p.results) + 1], outcome)) IN
  IF Len(results) = Len(modelsToTest)
    THEN testRespond(p, results)
    ELSE [p EXCEPT !.results = results, !.calls = @ + 1]

\* One turn of the loop after its await: the result is pushed; a success
\* breaks the loop, a failure goes on to the next model if there is one; after
\* the loop the response is sent.
testResume(p, outcome) ==
  LET results == Append(p.results, testResult(modelsToTest[Len(p.results) + 1], outcome)) IN
  IF results[Len(results)].status = "success" \/ Len(results) = Len(modelsToTest)
    THEN testRespond(p, results)
    ELSE [p EXCEPT !.results = results, !.calls = @ + 1]

\* A request to the test endpoint, once the one before it was answered.
ProbeStart(method) ==
  /\ probe.pc \in {"idle", "done"}
  /\ probe' = testStart(method, apiKey)
  /\ UNCHANGED <<serverVars, otherVars, started>>

\* The upstream call for the model at hand settles.
ProbeSettles(outcome) ==
  /\ probe.pc = "await"
  /\ probe' = testResume(probe, outcome)
  /\ UNCHANGED <<serverVars, otherVars, started>>

ProbeNext ==
  \/ \E method \in Methods : ProbeStart(method)
  \/ \E outcome \in ProbeOutcomes : ProbeSettles(outcome)

ProbeSpec == Init /\ [][ProbeNext]_vars

(* ------------------------------ the page ------------------------------- *)

\* Messages the page shows at most, the welcome message included.
MaxMessages == 5

sampleQuestions ==
  << << "W", "h", "e", "n", " ", "i", "s", " ", "t", "h", "e", " ",
        "G", "P", " ", "s", "u", "r", "g", "e", "r", "y", " ", "o",
        "p", "e", "n", "i", "n", "g", "?" >>,
     << "W", "h", "a", "t", " ", "a", "r", "e", " ", "t", "h", "e",
        " ", "u", "p", "c", "o", "m", "i", "n", "g", " ", "t", "o",
        "w", "n", " ", "c", "o", "u", "n", "c", "i", "l", " ", "m",
        "e", "e", "t", "i", "n", "g", "s", "?" >>,
     << "W", "h", "e", "r", "e", " ", "i", "s", " ", "t", "h", "e",
        " ", "n", "e", "a", "r", "e", "s", "t", " ", "T", "e", "s",
        "c", "o", "?" >>,
     << "W", "h", "e", "n", " ", "w", "i", "l", "l", " ", "t", "h",
        "e", " ", "s", "e", "c", "o", "n", "d", "a", "r", "y", " ",
        "s", "c", "h", "o", "o", "l", " ", "b", "e", " ", "r", "e",
        "a", "d", "y", "?" >>,
     << "W", "h", "a", "t", " ", "b", "u", "s", " ", "s", "e", "r",
        "v", "i", "c", "e", "s", " ", "a", "r", "e", " ", "a", "v",
        "a", "i", "l", "a", "b", "l", "e", " ", "t", "o", " ", "C",
        "a", "m", "b", "r", "i", "d", "g", "e", "?" >>,
     << "A", "r", "e", " ", "t", "h", "e", "r", "e", " ", "a", "n",
        "y", " ", "c", "o", "m", "m", "u", "n", "i", "t", "y", " ",
        "e", "v", "e", "n", "t", "s", " ", "t", "h", "i", "s", " ",
        "m", "o", "n", "t", "h", "?" >> >>

\* e.target.value of the text field: nothing, blanks, a question.
Inputs == {<<>>, <<" ", " ">>, <<"b", "u", "s", "?">>}

\* What axios.post('/api/chat') settles with on the page: the answers of the
\* handler, or no response at all.
ChatResponses ==
  {[status |-> 200, data |-> [response |-> <<"O", "k">>]],
   [status |-> 200, data |-> NotRelatedBody],
   [status |-> 400, data |-> [error |-> "Message is required"]],
   [status |-> 429, data |-> RateLimitedBody],
   [status |-> 429,
    data |-> onRejected([kind |-> "http", status |-> 429, data |-> "Monthly quota exceeded"]).body],
   [status |-> 500, data |-> onRejected([kind |-> "network"]).body],
   [kind |-> "network"]}

\* The text field, the send button and the sample questions as rendered.
inputDisabled(p) == p.isLoading \/ p.rateLimitInfo.isLimited

submitDisabled(p) ==
  p.isLoading \/ trim(p.input) = <<>> \/ p.rateLimitInfo.isLimited

samplesShown(p) == Len(p.messages) = 1 /\ ~p.isLoading

\* The messages of the page by their isUser and isError fields.
welcomeMessage == [isUser |-> FALSE, isError |-> FALSE]

userMessage == [isUser |-> TRUE, isError |-> FALSE]

errorMessage == [isUser |-> FALSE, isError |-> TRUE]

assistantMessage(data) ==
  [isUser |-> FALSE,
   isError |-> "notRelated" \in DOMAIN data /\ data.notRelated]

\* A sendMessage that goes on while a request is loading.
sendMessageWhileLoading(p, messageText, t) ==
  LET textToSend == IF messageText # <<>> THEN messageText ELSE trim(p.input) IN
  IF textToSend = <<>>
    THEN p
  ELSE IF /\ p.rateLimitInfo.isLimited
          /\ "resetTime" \in DOMAIN p.rateLimitInfo
          /\ t < p.rateLimitInfo.resetTime
    THEN [p EXCEPT !.messages = Append(@, errorMessage)]
  ELSE [p EXCEPT !.rateLimitInfo =
                   IF @.isLimited THEN [isLimited |-> FALSE] ELSE @,
                 !.messages = Append(@, userMessage),
                 !.input = <<>>,
                 !.isLoading = TRUE,
                 !.requests = @ + 1]

\* sendMessage up to its await (or its return): p is the state of the page,
\* messageText the sample question or <<>> for none, t is Date.now();
\* requests counts the calls of axios.post that have not settled.
sendMessage(p, messageText, t) ==
  LET textToSend == IF messageText # <<>> THEN messageText ELSE trim(p.input) IN
  IF textToSend = <<>> \/ p.isLoading
    THEN p
  ELSE IF /\ p.rateLimitInfo.isLimited
          /\ "resetTime" \in DOMAIN p.rateLimitInfo
          /\ t < p.rateLimitInfo.resetTime
    THEN [p EXCEPT !.messages = Append(@, errorMessage)]
  ELSE [p EXCEPT !.rateLimitInfo =
                   IF @.isLimited THEN [isLimited |-> FALSE] ELSE @,
                 !.messages = Append(@, userMessage),
                 !.input = <<>>,
                 !.isLoading = TRUE,
                 !.requests = @ + 1]

\* sendMessage after its await: the answer of a 2xx response or the error
\* message is shown, a 429 with rateLimited locks the page, and loading ends.
sendMessageResume(p, response, t) ==
  LET resolved == "status" \in DOMAIN response /\ response.status = 200
      rateLimited ==
        /\ "status" \in DOMAIN response
        /\ response.status = 429
        /\ "rateLimited" \in DOMAIN response.data
        /\ response.data.rateLimited
  IN [p EXCEPT !.rateLimitInfo =
                 IF rateLimited
                   THEN [isLimited |-> TRUE, resetTime |-> t + 5 * 60 * 1000]
                   ELSE @,
               !.messages = Append(@, IF resolved THEN assistantMessage(response.data)
                                                  ELSE errorMessage),
               !.isLoading = FALSE,
               !.requests = @ - 1]

\* The effect that runs on mount shows the welcome message.
Mount ==
  /\ page.messages = <<>>
  /\ page' = [page EXCEPT !.messages = <<welcomeMessage>>]
  /\ UNCHANGED <<serverVars, stepVars, earlier, draft, verdict>>

\* The user edits the text field.
setInput(text) ==
  /\ ~inputDisabled(page)
  /\ page' = [page EXCEPT !.input = text]
  /\ UNCHANGED <<serverVars, stepVars, earlier, draft, verdict>>

\* The user submits the form: the send button, or Enter in the text field,
\* which submits only while the button is enabled.
handleSubmit ==
  /\ ~submitDisabled(page)
  /\ Len(page.messages) + 2 <= MaxMessages
  /\ page' = sendMessage(page, <<>>, now)
  /\ UNCHANGED <<serverVars, stepVars, earlier, draft, verdict>>

\* The user clicks a sample question.
handleSampleQuestion(question) ==
  /\ samplesShown(page)
  /\ Len(page.messages) + 2 <= MaxMessages
  /\ page' = sendMessage(page, question, now)
  /\ UNCHANGED <<serverVars, stepVars, earlier, draft, verdict>>

\* The request of the page settles.
Settle(response) ==
  /\ page.requests > 0
  /\ page' = sendMessageResume(page, response, now)
  /\ UNCHANGED <<serverVars, stepVars, earlier, draft, verdict>>

PageNext ==
  \/ Tick
  \/ Mount
  \/ \E text \in Inputs : setInput(text)
  \/ handleSubmit
  \/ \E q \in 1..Len(sampleQuestions) : handleSampleQuestion(sampleQuestions[q])
  \/ \E response \in ChatResponses : Settle(response)

PageSpec == Init /\ [][PageNext]_vars


\* sendMessage is called, whatever the page shows: with a sample question or
\* with none.
Send(messageText) ==
  /\ Len(page.messages) + 2 <= MaxMessages
  /\ page' = sendMessage(page, messageText, now)
  /\ last' = [ev |-> "sendMessage", before |-> page]
  /\ UNCHANGED <<now, rateLimitMap, apiKey, inflight, allowedLog, stepVars,
                 earlier, draft, verdict>>

\* The request of the page settles, and the page as it was is kept.
Settled(response) ==
  /\ page.requests > 0
  /\ page' = sendMessageResume(page, response, now)
  /\ last' = [ev |-> "settled", before |-> page]
  /\ UNCHANGED <<now, rateLimitMap, apiKey, inflight, allowedLog, stepVars,
                 earlier, draft, verdict>>

SendNext ==
  \/ Tick
  \/ Mount
  \/ \E text \in Inputs : setInput(text)
  \/ \E messageText \in {<<>>, sampleQuestions[1]} : Send(messageText)
  \/ \E response \in ChatResponses : Settled(response)

SendSpec == Init /\ [][SendNext]_vars


(* ------------------------- reading the last event ---------------------- *)

\* The last event is an invocation of the handler; rateLimitMap and inflight
\* are then the state that invocation left, and last.mapBefore and
\* last.inflightBefore the state it found.
Handled == last.ev = "handle"

HandledPost == Handled /\ last.req.method = "POST"

LastKey == getRateLimitKey(last.req)

\* The key of the last request had an entry whose window was still open.
InOpenWindow ==
  /\ LastKey \in DOMAIN last.mapBefore
  /\ last.at <= last.mapBefore[LastKey].resetTime

\* The key of the last request had an entry whose window had elapsed.
AfterWindow ==
  /\ LastKey \in DOMAIN last.mapBefore
  /\ last.at > last.mapBefore[LastKey].resetTime

\* The last invocation neither called upstream nor suspended on it.
NoUpstreamCall == last.calls = 0 /\ ~last.await /\ inflight = last.inflightBefore

\* Requests of key k that the gate let through at a time in from..to.
AllowedIn(k, from, to) ==
  IF k \notin DOMAIN allowedLog THEN 0
  ELSE Cardinality({i \in 1..Len(allowedLog[k]) :
                      from <= allowedLog[k][i] /\ allowedLog[k][i] <= to})

(* -------------------------------- C1 ----------------------------------- *)

\* C1: for every key, at most RATE_LIMIT (5) requests were let through between
\* the creation of the key's entry (resetTime - RATE_WINDOW) and its
\* resetTime, and the stored count of every entry is between 1 and 5.
C1_WindowQuota ==
  \A k \in DOMAIN rateLimitMap :
    /\ rateLimitMap[k].count \in 1..5
    /\ AllowedIn(k, rateLimitMap[k].resetTime - 5 * 60 * 1000,
                 rateLimitMap[k].resetTime) <= 5

\* A key has used all 5 requests of its window and a further one was blocked.
C1_Witness ==
  /\ HandledPost
  /\ last.gate = "blocked"
  /\ rateLimitMap[LastKey].count = 5
  /\ AllowedIn(LastKey, rateLimitMap[LastKey].resetTime - 5 * 60 * 1000,
               rateLimitMap[LastKey].resetTime) = 5

(* -------------------------------- C2 ----------------------------------- *)

\* Requests of the last request's key let through earlier in the window in
\* which the last request arrived (0 when it opened a new window).
PassedBefore ==
  IF ~InOpenWindow THEN 0
  ELSE AllowedIn(LastKey, last.mapBefore[LastKey].resetTime - 5 * 60 * 1000,
                 last.mapBefore[LastKey].resetTime)
       - (IF last.gate = "allowed" THEN 1 ELSE 0)

\* C2: a POST of a key that has had fewer than 5 requests let through in the
\* current window passes the gate; once 5 have passed, the 6th and every
\* further POST in that window is answered 429 with rateLimited: true.
C2_SixthBlocked ==
  HandledPost =>
    /\ PassedBefore < 5 =>
         last.gate = "allowed" /\ last.status # 429
    /\ PassedBefore >= 5 =>
         /\ last.gate = "blocked"
         /\ last.status = 429
         /\ "rateLimited" \in DOMAIN last.body
         /\ last.body.rateLimited = TRUE

\* The request after the 5th of a window was answered 429.
C2_Witness ==
  /\ HandledPost
  /\ PassedBefore = 5
  /\ last.status = 429
  /\ last.at = last.mapBefore[LastKey].resetTime - 5 * 60 * 1000

(* -------------------------------- C3 ----------------------------------- *)

\* C3: a POST of a key whose entry exists and whose window has elapsed
\* (now > resetTime) passes the gate whatever the old count, and leaves the
\* entry with count = 1 and resetTime = now + 5 minutes.
C3_ResetAfterWindow ==
  HandledPost /\ AfterWindow =>
    /\ last.gate = "allowed"
    /\ rateLimitMap[LastKey] = [count |-> 1, resetTime |-> last.at + 5 * 60 * 1000]

\* A key that was being blocked (count 5) came back after its window.
C3_Witness ==
  /\ HandledPost
  /\ AfterWindow
  /\ last.mapBefore[LastKey].count = 5
  /\ last.gate = "allowed"

(* -------------------------------- C4 ----------------------------------- *)

\* C4: the resetTime of an entry changes only by a POST of that key arriving
\* strictly after it; a request at now = resetTime, an allowed increment and
\* a blocked request all leave resetTime as it was.
C4_FixedWindow ==
  Handled =>
    \A k \in DOMAIN last.mapBefore :
      /\ k \in DOMAIN rateLimitMap
      /\ rateLimitMap[k].resetTime # last.mapBefore[k].resetTime =>
           /\ last.req.method = "POST"
           /\ k = LastKey
           /\ last.at > last.mapBefore[k].resetTime

\* A request arrived exactly at resetTime and was counted in the old window.
C4_Witness ==
  /\ HandledPost
  /\ LastKey \in DOMAIN last.mapBefore
  /\ last.at = last.mapBefore[LastKey].resetTime
  /\ last.gate = "allowed"
  /\ rateLimitMap[LastKey].count = last.mapBefore[LastKey].count + 1
  /\ rateLimitMap[LastKey].resetTime = last.at

(* -------------------------------- C5 ----------------------------------- *)

\* C5: a blocked request leaves the rate-limit map exactly as it was.
C5_BlockedLeavesMap ==
  Handled /\ last.gate = "blocked" => rateLimitMap = last.mapBefore

\* A request was blocked while the other key also had an entry.
C5_Witness ==
  /\ Handled
  /\ last.gate = "blocked"
  /\ Cardinality(DOMAIN last.mapBefore) = 2
  /\ last.at > 0

(* -------------------------------- C6 ----------------------------------- *)

\* C6: for every key and every interval of 5 minutes, the gate lets through
\* at most 5 requests of that key inside the interval (it is enough to look
\* at the intervals that start at a logged time).
C6_AnyFiveMinutes ==
  \A k \in DOMAIN allowedLog :
    \A i \in 1..Len(allowedLog[k]) :
      AllowedIn(k, allowedLog[k][i], allowedLog[k][i] + 5 * 60 * 1000) <= 5

(* -------------------------------- C7 ----------------------------------- *)

\* C7: a request whose method is not POST is answered 405, leaves the
\* rate-limit map unchanged and makes no upstream call, whatever its body,
\* the credential and the state of its key.
C7_MethodFirst ==
  Handled /\ last.req.method # "POST" =>
    /\ last.status = 405
    /\ rateLimitMap = last.mapBefore
    /\ NoUpstreamCall

\* A GET with an in-scope message, a credential, and a key at its limit.
C7_Witness ==
  /\ Handled
  /\ last.req.method = "GET"
  /\ last.status = 405
  /\ last.req.message = Str(<<"G", "P", "?">>)
  /\ apiKey = Text("pplx-key")
  /\ InOpenWindow
  /\ last.mapBefore[LastKey].count = 5

(* -------------------------------- C8 ----------------------------------- *)

PassedGate == HandledPost /\ last.gate = "allowed"

\* The request went on to the relevance filter: it ended in the refusal, in
\* the credential error, or in the upstream call.
ReachedFilter ==
  \/ last.status = 200 /\ last.body = NotRelatedBody
  \/ last.status = 500 /\ last.body = [error |-> "API key not configured"]
  \/ last.await

\* C8 as stated: a POST that passes the gate is answered 400 exactly when its
\* message is missing or is not a string; every string message proceeds to
\* the relevance filter.
C8_AsStated ==
  PassedGate =>
    /\ last.status = 400 <=> last.req.message.t # "string"
    /\ last.req.message.t = "string" => ReachedFilter

\* C8 amended: a POST that passes the gate is answered 400 exactly when its
\* message is missing, is not a string, or is the empty string; every
\* non-empty string message proceeds to the relevance filter.
C8_EmptyIsMissing ==
  PassedGate =>
    LET empty == last.req.message.t = "string" /\ Len(last.req.message.v) = 0 IN
    /\ last.status = 400 <=> (last.req.message.t # "string" \/ empty)
    /\ (last.req.message.t = "string" /\ ~empty) => ReachedFilter

\* The empty string passed the gate and was answered 400.
C8_Witness ==
  /\ PassedGate
  /\ last.req.message = Str(<<>>)
  /\ last.status = 400

(* -------------------------------- C9 ----------------------------------- *)

ValidMessage == last.req.message.t = "string" /\ Len(last.req.message.v) > 0

\* C9: a POST that passes the gate and body validation with a message the
\* relevance filter rejects is answered 200 with the canned refusal and
\* notRelated: true, and makes no upstream call.
C9_OutOfScope ==
  PassedGate /\ ValidMessage /\ ~isNorthstoweRelated(last.req.message.v) =>
    /\ last.status = 200
    /\ "response" \in DOMAIN last.body
    /\ last.body.response = NotRelatedBodyNoFlag.response
    /\ "notRelated" \in DOMAIN last.body
    /\ last.body.notRelated = TRUE
    /\ NoUpstreamCall

\* "Hi" was refused although a credential was configured.
C9_Witness ==
  /\ PassedGate
  /\ last.req.message = Str(<<"H", "i">>)
  /\ last.status = 200
  /\ apiKey = Text("pplx-key")

(* -------------------------------- C10 ---------------------------------- *)

\* C10: with no upstream credential configured, an in-scope message that
\* passed the gate and validation is answered 500 without an upstream call,
\* and an out-of-scope one is still answered 200 with notRelated: true.
C10_CredentialAfterFilter ==
  PassedGate /\ ValidMessage /\ ~TruthyText(apiKey) =>
    IF isNorthstoweRelated(last.req.message.v)
      THEN /\ last.status = 500
           /\ last.body = [error |-> "API key not configured"]
           /\ NoUpstreamCall
      ELSE /\ last.status = 200
           /\ "notRelated" \in DOMAIN last.body
           /\ last.body.notRelated = TRUE

\* Without a credential, "Hi" was refused with 200.
C10_Witness ==
  /\ PassedGate
  /\ apiKey = Undefined
  /\ last.req.message = Str(<<"H", "i">>)
  /\ last.status = 200
  /\ last.body.notRelated = TRUE
  /\ last.mapBefore # <<>>

(* -------------------------------- C11 ---------------------------------- *)

\* The last event is a response sent after the upstream call has settled.
Replied == last.ev = "reply"

\* The upstream call resolved with a 2xx body.
UpstreamSucceeded == Replied /\ last.outcome.kind = "ok"

\* The 2xx body has a first choice whose message has a non-empty content.
HasContent ==
  /\ "choices" \in DOMAIN last.outcome
  /\ Len(last.outcome.choices) >= 1
  /\ "message" \in DOMAIN last.outcome.choices[1]
  /\ Len(last.outcome.choices[1].message.content) > 0

\* C11: when the upstream call succeeds with a non-empty content in its first
\* choice, the handler answers 200 with response equal to that content and
\* with no other field (no notRelated, no error).
C11_ContentVerbatim ==
  UpstreamSucceeded /\ HasContent =>
    /\ last.status = 200
    /\ DOMAIN last.body = {"response"}
    /\ last.body.response = last.outcome.choices[1].message.content

\* A body with two choices was answered with the content of the first.
C11_Witness ==
  /\ UpstreamSucceeded
  /\ HasContent
  /\ Len(last.outcome.choices) = 2
  /\ last.status = 200
  /\ last.body.response = <<"O", "k">>

(* -------------------------------- C12 ---------------------------------- *)

\* C12: when the upstream call succeeds but the first choice is absent or its
\* content is empty, the handler answers 500 and never 200.
C12_EmptyIsError ==
  UpstreamSucceeded /\ ~HasContent => last.status = 500

\* An empty choices array was answered 500.
C12_Witness ==
  /\ UpstreamSucceeded
  /\ "choices" \in DOMAIN last.outcome
  /\ last.outcome.choices = <<>>
  /\ last.status = 500
  /\ last.body = [error |-> "No response from AI service"]

(* -------------------------------- C13 ---------------------------------- *)

UpstreamFailed == Replied /\ last.outcome.kind # "ok"

\* C13: when the upstream call fails, upstream 401 or 403 gives 500, upstream
\* 429 gives 429, and every other failure (another status, a network error,
\* a timeout) gives 500.
C13_ErrorMapping ==
  UpstreamFailed =>
    last.status =
      (IF last.outcome.kind = "http" /\ last.outcome.status \in {401, 403} THEN 500
       ELSE IF last.outcome.kind = "http" /\ last.outcome.status = 429 THEN 429
       ELSE 500)

\* An upstream 401 was answered 500.
C13_Witness ==
  /\ UpstreamFailed
  /\ last.outcome.kind = "http"
  /\ last.outcome.status = 401
  /\ last.status = 500

(* -------------------------------- C14 ---------------------------------- *)

\* C14: every chat request makes at most one upstream call: a suspended
\* invocation has made exactly one, an invocation that answered at once has
\* made at most one, and a reply (after a failure too) ends the request
\* without a further call.
C14_NoRetry ==
  /\ \A i \in 1..Len(inflight) : inflight[i].calls = 1
  /\ Handled => last.calls \in {0, 1}
  /\ Replied =>
       /\ last.calls = 1
       /\ Len(inflight) = Len(last.inflightBefore) - 1

\* An upstream failure ended its request after one call.
C14_Witness ==
  /\ UpstreamFailed
  /\ last.outcome.kind = "timeout"
  /\ last.calls = 1
  /\ inflight = <<>>

(* -------------------------------- C15 ---------------------------------- *)

\* Two replies, the last one and an earlier one, both to upstream calls that
\* failed with the same HTTP status and different error bodies.
SameStatusOtherBody ==
  /\ UpstreamFailed
  /\ earlier.ev = "reply"
  /\ last.outcome.kind = "http"
  /\ earlier.outcome.kind = "http"
  /\ last.outcome.status = earlier.outcome.status
  /\ last.outcome.data # earlier.outcome.data

\* C15: two requests whose upstream calls fail with the same status but
\* different upstream error bodies receive the same status and the same body.
C15_ErrorBodyHidden ==
  SameStatusOtherBody =>
    /\ last.status = earlier.status
    /\ last.body = earlier.body

\* Two upstream 401 failures with different error bodies were both answered.
C15_Witness ==
  /\ SameStatusOtherBody
  /\ last.outcome.status = 401
  /\ last.outcome.data = "Monthly quota exceeded"
  /\ earlier.outcome.data = "Invalid API key provided"
  /\ last.body = [error |-> "API authentication failed - check your Perplexity API key"]

(* -------------------------------- C16 ---------------------------------- *)

\* The filters and the enhancers have been applied to the typed question.
Classified == verdict.of = "query"

\* The locality name, in mixed case, is one of the pieces of the question.
NamesLocality == \E i \in 1..Len(draft) : draft[i] \in LocalityNames

\* C16: a query that contains 'northstowe' or 'north stowe' in any letter
\* case passes the relevance filter of chat.ts and that of index.tsx,
\* whatever else it contains and however long it is.
C16_LocalityNameAccepted ==
  Classified /\ NamesLocality => verdict.chat /\ verdict.lenient

\* A query of more than 50 characters with 'north STOWE' after other text
\* was accepted by both filters.
C16_Witness ==
  /\ Classified
  /\ Len(draft) = 3
  /\ draft[1] = Filler
  /\ draft[2] = <<"\n">>
  /\ draft[3] = <<"n", "o", "r", "t", "h", " ", "S", "T", "O", "W", "E">>
  /\ verdict.chat
  /\ verdict.lenient

(* -------------------------------- C17 ---------------------------------- *)

\* The query contains an entry of the keyword list of chat.ts, of index.tsx.
HasKeyword(query) ==
  \E k \in 1..Len(loweredKeywords) : includes(toLowerCase(query), loweredKeywords[k])

HasKeywordLenient(query) ==
  \E k \in 1..Len(loweredKeywordsLenient) :
    includes(toLowerCase(query), loweredKeywordsLenient[k])

\* The query contains a follow-up word.
HasFollowUp(query) ==
  \E k \in 1..Len(followUpKeywords) : includes(toLowerCase(query), followUpKeywords[k])

\* C17: a query of at most 50 characters that contains a follow-up word and
\* no locality keyword passes the relevance filter, that of chat.ts and that
\* of index.tsx alike.
C17_FollowUpAccepted ==
  Classified /\ Len(verdict.query) <= 50 /\ HasFollowUp(verdict.query) =>
    /\ ~HasKeyword(verdict.query) => verdict.chat
    /\ ~HasKeywordLenient(verdict.query) => verdict.lenient

(* -------------------------------- C18 ---------------------------------- *)

\* The query matches one of the local-service patterns.
MatchesPattern(query) ==
  \E p \in 1..Len(localServicePatterns) : test(localServicePatterns[p], query)

IsPrefix(p, s) == Len(p) <= Len(s) /\ SubSeq(s, 1, Len(p)) = p

\* C19: the enhanced query that is sent upstream, for a query the filter has
\* let through, begins with the query unchanged; so for the enhancer of
\* chat.ts and for the two of index.tsx.
C19_OnlyAppends ==
  Classified =>
    /\ verdict.chat => IsPrefix(verdict.query, verdict.enhanced)
    /\ verdict.lenient => IsPrefix(verdict.query, verdict.enhancedMeeting)
    /\ verdict.lenient => IsPrefix(verdict.query, verdict.enhancedTopics)

(* -------------------------------- C20 ---------------------------------- *)

\* The page was locked by a 429 with rateLimited and its reset time has come.
ResetTimePassed ==
  /\ page.rateLimitInfo.isLimited
  /\ "resetTime" \in DOMAIN page.rateLimitInfo
  /\ now >= page.rateLimitInfo.resetTime

\* The user has a way to send a message: a sample question to click, a text
\* field to type in, or a send button to press.
CanSend ==
  samplesShown(page) \/ ~inputDisabled(page) \/ ~submitDisabled(page)

\* C20: once the reset time of a rate-limited page has passed, the user can
\* send a message again without reloading the page.
C20_SendableAfterReset == ResetTimePassed => CanSend

(* -------------------------------- C21 ---------------------------------- *)

\* The last request was a POST whose message is missing or is no string.
BadBody == HandledPost /\ last.req.message.t # "string"

\* The key of the last request had used up its window when the request came.
KeyAtLimit == InOpenWindow /\ last.mapBefore[LastKey].count >= 5

\* C21: the gate runs before the validation of the body.  A POST with a
\* missing or non-string message is answered 429, and not 400, when its key
\* is at the limit; below the limit it is answered 400 and has used up one of
\* the key's requests all the same.
C21_GateBeforeValidation ==
  BadBody =>
    IF KeyAtLimit
      THEN last.status = 429 /\ rateLimitMap = last.mapBefore
      ELSE /\ last.status = 400
           /\ LastKey \in DOMAIN rateLimitMap
           /\ rateLimitMap[LastKey].count =
                (IF InOpenWindow THEN last.mapBefore[LastKey].count + 1 ELSE 1)

\* A POST without a message was answered 400 and took the fifth and last
\* request of its key's window.
C21_Witness ==
  /\ BadBody
  /\ last.req.message = Undefined
  /\ last.status = 400
  /\ InOpenWindow
  /\ last.mapBefore[LastKey].count = 4
  /\ rateLimitMap[LastKey].count = 5

(* -------------------------------- C24 ---------------------------------- *)

\* The forwarded-for header of the last request is present and not empty; its
\* socket address is present.
HeaderGiven == last.req.xff.t = "string" /\ last.req.xff.v # ""

SocketGiven == last.req.remoteAddress.t = "string"

\* The key the last request is to be counted under.
ClaimedKey ==
  IF HeaderGiven THEN last.req.xff.v
  ELSE IF SocketGiven THEN last.req.remoteAddress.v
  ELSE "unknown"

\* C24: a request is counted under its forwarded-for header when that is
\* present and not empty, else under its socket address when present, else
\* under 'unknown': the gate touches the entry of that key and of no other,
\* and requests with neither value are blocked together once the entry of
\* 'unknown' has counted 5 in its window.
C24_KeyOrder ==
  HandledPost =>
    /\ DOMAIN rateLimitMap = DOMAIN last.mapBefore \cup {ClaimedKey}
    /\ last.gate = "allowed" =>
         rateLimitMap[ClaimedKey].count =
           (IF /\ ClaimedKey \in DOMAIN last.mapBefore
               /\ last.at <= last.mapBefore[ClaimedKey].resetTime
              THEN last.mapBefore[ClaimedKey].count + 1
              ELSE 1)
    /\ ~HeaderGiven /\ ~SocketGiven =>
         (last.gate = "blocked" <=>
            /\ "unknown" \in DOMAIN last.mapBefore
            /\ last.at <= last.mapBefore["unknown"].resetTime
            /\ last.mapBefore["unknown"].count >= 5)

\* A request with an empty header and no socket address was blocked by the
\* count of 'unknown', while a request behind a proxy had been counted under
\* its header.
C24_Witness ==
  /\ HandledPost
  /\ last.req.xff = Text("")
  /\ last.req.remoteAddress = Undefined
  /\ last.gate = "blocked"
  /\ last.mapBefore["unknown"].count = 5
  /\ "203.0.113.7" \in DOMAIN rateLimitMap
  /\ "10.0.0.2" \notin DOMAIN rateLimitMap

(* -------------------------------- C25 ---------------------------------- *)

\* Map m with the entries of the keys in ks alone.
Restrict(m, ks) == [k \in DOMAIN m \cap ks |-> m[k]]

\* C25: a request leaves the entry of every key other than its own as it was,
\* removes no entry, and is blocked or let through as it would be if the map
\* held no other key.
C25_BucketsIndependent ==
  HandledPost =>
    /\ \A k \in DOMAIN last.mapBefore :
         /\ k \in DOMAIN rateLimitMap
         /\ k # LastKey => rateLimitMap[k] = last.mapBefore[k]
    /\ (last.gate = "blocked") =
         isRateLimited(Restrict(last.mapBefore, {LastKey}), LastKey, last.at).limited

\* A request was let through while the two other keys, one of them at the
\* limit, kept their entries.
C25_Witness ==
  /\ HandledPost
  /\ last.gate = "allowed"
  /\ LastKey = "10.0.0.2"
  /\ DOMAIN last.mapBefore = {"unknown", "203.0.113.7", "10.0.0.2"}
  /\ last.mapBefore["unknown"].count = 5
  /\ rateLimitMap["unknown"] = last.mapBefore["unknown"]
  /\ rateLimitMap["203.0.113.7"] = last.mapBefore["203.0.113.7"]
  /\ rateLimitMap["10.0.0.2"].count = last.mapBefore["10.0.0.2"].count + 1

(* -------------------------------- C22 ---------------------------------- *)

\* C22: every POST that is suspended on the upstream call is answered in the
\* end, also when the upstream API never answers.
C22_AlwaysAnswered == (Len(inflight) > 0) ~> (Len(inflight) = 0)

(* -------------------------------- C23 ---------------------------------- *)

\* The i-th invocation is inside the gate: it has read the entry of its key
\* and has not yet returned from isRateLimited.
InsideGate(i) == started[i].pc \in {"got", "counting"}

\* The j-th invocation, of the same key, is being handled at the same time:
\* its request has arrived and its gate has not run yet.
WaitsBeside(i, j) ==
  /\ j # i
  /\ started[j].key = started[i].key
  /\ started[j].pc = "queued"

\* Invocations of key k that the gate has let through.
LetThrough(k) ==
  {i \in 1..Len(started) :
     /\ started[i].key = k
     /\ started[i].pc \in {"gated", "left"}
     /\ ~started[i].limited}

\* C23 as stated: the gate is not atomic, so that while one invocation is
\* inside the gate another one of the same key can enter it.
C23_AsStated ==
  \A i, j \in 1..Len(started) :
    InsideGate(i) /\ WaitsBeside(i, j) => ENABLED GetEntry(j)

\* C23: the gate runs without interruption.  While one invocation is inside
\* the gate no other one takes a step, at most one is inside it at a time,
\* and the count of a key is the number of its requests let through, never
\* more than 5: no update is lost.
C23_GateAtomic ==
  /\ \A i, j \in 1..Len(started) :
       InsideGate(i) /\ j # i =>
         /\ ~InsideGate(j)
         /\ ~ENABLED GetEntry(j)
  /\ \A k \in DOMAIN rateLimitMap :
       /\ rateLimitMap[k].count = Cardinality(LetThrough(k))
       /\ rateLimitMap[k].count <= 5

\* One invocation is about to raise the count to 5 while another request of
\* the same key has arrived and waits.
C23_Witness ==
  \E i, j \in 1..Len(started) :
    /\ started[i].pc = "counting"
    /\ WaitsBeside(i, j)
    /\ rateLimitMap[started[i].key].count = 4
    /\ ~ENABLED GetEntry(j)

(* -------------------------------- C27 ---------------------------------- *)

\* The test endpoint has answered its request.
ProbeDone == probe.pc = "done"

\* The results name the models in list order, and all of them but the last
\* have failed.
InListOrder(results) ==
  /\ \A i \in 1..Len(results) : results[i].model = modelsToTest[i]
  /\ \A i \in 1..(Len(results) - 1) : results[i].status = "failed"

\* C27: the test endpoint answers 405 to a method other than GET and 500
\* when no credential is set, both without an upstream call.  Otherwise it
\* makes between 1 and 7 upstream calls, in list order, and answers 200 with
\* one result per call: every result before the last is 'failed', and the
\* last is 'success' unless all 7 models were tried.
C27_TestEndpoint ==
  /\ probe.pc = "await" =>
       /\ probe.calls = Len(probe.results) + 1
       /\ probe.calls <= 7
       /\ \A i \in 1..Len(probe.results) :
            /\ probe.results[i].model = modelsToTest[i]
            /\ probe.results[i].status = "failed"
  /\ ProbeDone =>
       IF probe.method # "GET"
         THEN probe.status = 405 /\ probe.calls = 0
       ELSE IF apiKey = Undefined
         THEN probe.status = 500 /\ probe.calls = 0
       ELSE /\ probe.status = 200
            /\ probe.calls \in 1..7
            /\ Len(probe.body.results) = probe.calls
            /\ InListOrder(probe.body.results)
            /\ \/ probe.body.results[probe.calls].status = "success"
               \/ probe.calls = 7

\* The third model was the first to succeed: three calls, two failures and
\* then a success.
C27_Witness ==
  /\ ProbeDone
  /\ probe.status = 200
  /\ probe.calls = 3
  /\ probe.body.results[1].status = "failed"
  /\ probe.body.results[2].status = "failed"
  /\ probe.body.results[3] =
       [model |-> "sonar-medium-online", status |-> "success",
        response |-> Str(<<"H", "i">>)]

(* -------------------------------- C26 ---------------------------------- *)

\* The last step was a call of sendMessage that went on to the request.
Accepted == last.ev = "sendMessage" /\ page.requests = last.before.requests + 1

\* C26: the page has at most one chat request in flight, and isLoading is
\* true exactly while it is.  A call of sendMessage while isLoading leaves
\* the page as it was; a call that goes on to the request appends the user
\* message and nothing else; the user message stays the newest message until
\* the request settles, which appends exactly one message that is not a user
\* message and sets isLoading to false.
C26_OneRequestInFlight ==
  /\ page.requests \in {0, 1}
  /\ page.isLoading <=> page.requests = 1
  /\ page.isLoading => page.messages[Len(page.messages)] = userMessage
  /\ last.ev = "sendMessage" /\ last.before.isLoading => page = last.before
  /\ Accepted =>
       /\ ~last.before.isLoading
       /\ page.messages = Append(last.before.messages, userMessage)
  /\ last.ev = "settled" =>
       /\ ~page.isLoading
       /\ page.requests = 0
       /\ Len(page.messages) = Len(last.before.messages) + 1
       /\ ~page.messages[Len(page.messages)].isUser
       /\ SubSeq(page.messages, 1, Len(last.before.messages)) = last.before.messages
       /\ last.before.messages[Len(last.before.messages)] = userMessage

\* sendMessage was called with a sample question while the first request
\* was loading, and the page stayed as it was.
C26_Witness ==
  /\ last.ev = "sendMessage"
  /\ last.before.isLoading
  /\ page.requests = 1
  /\ page.messages = <<welcomeMessage, userMessage>>

====
